---- MODULE Spec2Model ----
(***************************************************************************)
(* neobench: the benchmark coordinator (main, runBenchmark, collectResults, *)
(* awaitCompletion), the two-stage signal handler (SetupSignalHandler) and *)
(* the workload script parser (Parse).                                     *)
(*                                                                         *)
(* Spec      : one run of the program, goroutines interleaved step by step *)
(* ParseSpec : Parse on one input text, given as its token sequence        *)
(***************************************************************************)
EXTENDS Integers, Sequences, FiniteSets, TLC

\* ------------------------------------------------------------------ bounds
NumClients == 2
MaxCount == 1
MaxExtraTicks == 1
MaxFrags == 2
\* the width of int64 in the model, and the parts of 1.0 a float64 resolves
IntBits == 5
FloatUnit == 2
\* the calls of Next on a client
MaxNextCalls == 2
\* the evaluations of one expression
MaxEvals == 2
\* the -w arguments of an invocation
MaxWorkloads == 2
\* the ticks that a time.Sleep(100ms) of awaitCompletion lasts beyond one
MaxLag == 1
\* awaitCompletion on its own: the ticks of the runtime beyond the last two
\* seconds, and the greatest progressInterval, in ticks
MaxAwaitTicks == 6
MaxInterval == 3

\* ------------------------------------------------------- program constants
\* capacity of sigCh: make(chan os.Signal, 2)
SigChCap == 2
\* awaitCompletion: if delta < 2*time.Second, on a clock that counts the ticks of
\* 100 ms that awaitCompletion sleeps per iteration
FinalWindow == 20

VARIABLES
  \* command line (pflag variables)
  fInitMode, fLatencyMode,
  \* runBenchmark's runtime and progressInterval, in ticks of 100 ms
  runtime, progressInterval,
  \* whether InitTPCBLike succeeds (the database's answer)
  initOk,
  \* main / runBenchmark goroutine
  pc, stopRet, spawned, deadline, now, nextProgressReport, progressReports,
  results, total, retErr, reports, initRuns,
  \* process
  exitCode, exitBy,
  \* SetupSignalHandler: the captured variable stopCh, the channel it named,
  \* sigCh, and the handler goroutine
  stopCh, closed, sigCh, hpc, hsel, signalCount,
  \* workers, resultChan, wg
  wpc, wres, resultChan, wg,
  \* Parse: the input tokens, the parser context, the commands so far, the
  \* query builder of command(), the position in Parse and what it returned
  input, c, commands, b, ppc, ret,
  \* Parse's arguments scale and seed (main: fScale, seed), and the Workload
  \* that Parse returned
  scale, seed, wl,
  \* the maps of the heap (a map value names one), and the global source of
  \* math/rand
  heap, grand,
  \* a ClientWorkload and its run of Next: the CommandContext, the UnitOfWork,
  \* the index of the command in turn, where Next is, what it returned, the
  \* units of work of the calls so far, and for each statement of the unit of
  \* work the variables as they were when its query executed
  cw, ctx, uow, ip, npc, nret, units, taken,
  \* an Expression, the variables of the CommandContext it is evaluated with,
  \* and what its evaluations so far came to
  xe, xvars, xouts,
  \* main's wrk.Rand, and for each worker the seed of the generator of its
  \* ClientWorkload (-1 before NewClient made it)
  wrkRand, clientSeed,
  \* the -w arguments (each a sequence of characters, a path being one
  \* character here), the scripts main has made of them, and where main is
  \* with them
  fWorkloads, scripts, wlpc,
  \* awaitCompletion's originalDelta, and for each worker the number of
  \* transactions that its ResultRecorder has recorded
  originalDelta, recorders

flagVars == <<fInitMode, fLatencyMode, runtime, progressInterval, initOk>>
coordVars == <<pc, stopRet, spawned, deadline, now, nextProgressReport,
               progressReports, results, total, retErr, reports, initRuns>>
procVars == <<exitCode, exitBy>>
sigVars == <<stopCh, closed, sigCh, hpc, hsel, signalCount>>
workerVars == <<wpc, wres, resultChan, wg>>
clientVars == <<wrkRand, clientSeed>>
parseVars == <<input, c, commands, b, ppc, ret>>
runVars == <<flagVars, coordVars, procVars, sigVars, workerVars, clientVars>>
scriptVars == <<scale, seed, wl, heap, grand, cw, ctx, uow, ip, npc, nret, units, taken>>
exprVars == <<xe, xvars, xouts>>
weightVars == <<fWorkloads, scripts, wlpc>>
awaitVars == <<originalDelta, recorders>>
vars == <<runVars, parseVars, scriptVars, exprVars, weightVars, awaitVars>>

Workers == 0 .. (NumClients - 1)

\* the process is alive: no os.Exit, log.Fatal or panic yet
Running == exitBy = "none"

\* ------------------------------------------------------------- evaluation
\* int64 on IntBits bits: the least and the greatest value, and the value that
\* two's complement arithmetic keeps of an integer
MinInt == -(2 ^ (IntBits - 1))
MaxInt == 2 ^ (IntBits - 1) - 1
Wrap(i) == ((i + 2 ^ (IntBits - 1)) % (2 ^ IntBits)) - 2 ^ (IntBits - 1)

\* the values of variables and expressions: an int64, or a float64 held as a
\* whole number of the parts of which FloatUnit make 1.0
IntVal(i) == [isFloat |-> FALSE, v |-> i]
FloatVal(q) == [isFloat |-> TRUE, v |-> q]

\* rand.New(rand.NewSource(seed)): a generator is its seed and the number of
\* values drawn from it; the values are a fixed function of the two
NewSource(sd) == [seed |-> sd, n |-> 0]
Mix(sd, n) == (sd * 7 + n * 5 + 3) % (2 ^ (IntBits - 1))
\* Rand.Int63: a non-negative value, the generator one draw further
Int63(r) == [val |-> Mix(r.seed, r.n), rnd |-> [r EXCEPT !.n = r.n + 1]]
\* Rand.Int63n(n) for n > 0 (it panics for n <= 0): a value in [0, n)
Int63n(r, n) == [val |-> Int63(r).val % n, rnd |-> Int63(r).rnd]
\* rand.Float64 of the package: drawn from the global source, of which g
\* values have been drawn; a float64 in [0.0, 1.0)
Float64(g) == Mix(1, g) % FloatUnit

\* a nil error of Eval, an error made by fmt.Errorf of a message and what it
\* names, and fmt.Errorf("in %s: %s", f.String(), err) around an error
NoEvalErr == [what |-> "nil", got |-> "", wraps |-> 0]
EvalErrorf(what, got) == [what |-> what, got |-> got, wraps |-> 0]
InCall(e) == [e EXCEPT !.wraps = e.wraps + 1]

\* what an evaluation comes to: a value, an error, or a panic; with the
\* generator of the context and the global source as it leaves them
Value(v, rnd, g) ==
  [ok |-> TRUE, panic |-> FALSE, val |-> v, err |-> NoEvalErr, rnd |-> rnd, g |-> g]
EvalError(e, rnd, g) ==
  [ok |-> FALSE, panic |-> FALSE, val |-> IntVal(0), err |-> e, rnd |-> rnd, g |-> g]
Panic(what, rnd, g) ==
  [ok |-> FALSE, panic |-> TRUE, val |-> IntVal(0), err |-> EvalErrorf(what, ""),
   rnd |-> rnd, g |-> g]

\* Number of argAsNumber: val is always set (float64(iVal) for an int64)
Number(value) ==
  IF value.isFloat
    THEN [isFloat |-> TRUE, val |-> value.v, iVal |-> 0]
    ELSE [isFloat |-> FALSE, val |-> value.v * FloatUnit, iVal |-> value.v]

RECURSIVE ExpressionEval(_, _, _, _)
RECURSIVE CallExprEval(_, _, _, _)

\* CallExpr.argAsNumber: the evaluation of argument i, its val a Number
argAsNumber(f, i, vs, rnd, g) ==
  IF Len(f.args) <= i
    THEN EvalError(EvalErrorf("expected at least arguments", f.name), rnd, g)
    ELSE LET a == ExpressionEval(f.args[i + 1], vs, rnd, g)
         IN IF a.ok THEN [a EXCEPT !.val = Number(a.val)] ELSE a

\* CallExpr.Eval, case "random", with both arguments evaluated
randomOf(x, y, rnd, g) ==
  IF x.val = y.val
    THEN Value(IF x.isFloat THEN FloatVal(x.val) ELSE IntVal(x.iVal), rnd, g)
    ELSE IF x.isFloat \/ y.isFloat
      THEN Value(FloatVal(x.val + (Float64(g) * (y.val - x.val)) \div FloatUnit),
                 rnd, g + 1)
      ELSE IF Wrap(y.iVal - x.iVal) <= 0
        THEN Panic("invalid argument to Int63n", rnd, g)
        ELSE Value(IntVal(Wrap(x.iVal + Int63n(rnd, Wrap(y.iVal - x.iVal)).val)),
                   Int63n(rnd, Wrap(y.iVal - x.iVal)).rnd, g)

\* CallExpr.Eval, case "*", with both arguments evaluated
productOf(x, y, rnd, g) ==
  IF x.isFloat \/ y.isFloat
    THEN Value(FloatVal((x.val * y.val) \div FloatUnit), rnd, g)
    ELSE Value(IntVal(Wrap(x.iVal * y.iVal)), rnd, g)

\* CallExpr.Eval
CallExprEval(f, vs, rnd, g) ==
  IF f.name \in {"random", "*"}
    THEN LET x == argAsNumber(f, 0, vs, rnd, g) IN
         IF x.panic THEN x
         ELSE IF ~x.ok THEN [x EXCEPT !.err = InCall(x.err)]
         ELSE LET y == argAsNumber(f, 1, vs, x.rnd, x.g) IN
              IF y.panic THEN y
              ELSE IF ~y.ok THEN [y EXCEPT !.err = InCall(y.err)]
              ELSE IF f.name = "random"
                THEN randomOf(x.val, y.val, y.rnd, y.g)
                ELSE productOf(x.val, y.val, y.rnd, y.g)
    ELSE EvalError(EvalErrorf("unknown function", f.name), rnd, g)

\* Expression.Eval with the variables vs, the generator rnd of the context
\* and the global source g
ExpressionEval(e, vs, rnd, g) ==
  CASE e.kind = "int" -> Value(IntVal(e.val), rnd, g)
    [] e.kind = "var" ->
         IF e.name \in DOMAIN vs
           THEN Value(vs[e.name], rnd, g)
           ELSE EvalError(EvalErrorf("this variable is not defined", e.name), rnd, g)
    [] e.kind = "call" -> CallExprEval(e, vs, rnd, g)
    [] OTHER -> EvalError(EvalErrorf("unknown expression", "N/A"), rnd, g)

\* ------------------------------------------------ Result (neobench package)
\* neobench.NewResult: an empty total
NewResult == [succeeded |-> 0, failed |-> 0]

\* Result.Add: the counters of one worker's result added to the total
ResultAdd(t, res) ==
  [succeeded |-> t.succeeded + res.succeeded, failed |-> t.failed + res.failed]

\* Result.TotalFailed
TotalFailed(t) == t.failed

\* a WorkerResult of worker w: whether it carries a terminal Error, and its
\* success and failure counts
WorkerResult(w, err, s, f) ==
  [workerId |-> w, err |-> err, succeeded |-> s, failed |-> f]

\* ------------------------------------------------------------ the process
\* os.Exit(code), log.Fatal (code 1), or an unrecovered panic (the Go runtime
\* ends the process with code 2): no goroutine takes a step afterwards
Exit(code, by) ==
  /\ exitCode' = code
  /\ exitBy' = by

\* ------------------------------------------------- SetupSignalHandler.stopFunc
\* if stopCh != nil
stopFuncIsSet == stopCh # "nil"

\* close(stopCh) panics on a nil channel and on a channel already closed
closePanics == stopCh = "nil" \/ closed

\* close(stopCh)
stopFuncClose ==
  IF closePanics
    THEN /\ Exit(2, "panic")
         /\ UNCHANGED closed
    ELSE /\ closed' = TRUE
         /\ UNCHANGED procVars

\* stopCh = nil
stopFuncNil == stopCh' = "nil"

\* -------------------------------------------------------------------- main
\* initWorkload: the built-in workloads call InitTPCBLike; its error, if any
initWorkload == ~initOk

\* main: if fInitMode { err = initWorkload(...); if err != nil { log.Fatal(err) } }
\* and on to the benchmark
\* main with the log.Fatal after a failed initWorkload left out
MainInitIgnoringFailure ==
  /\ Running
  /\ pc = "init"
  /\ initRuns' = IF fInitMode THEN initRuns + 1 ELSE initRuns
  /\ pc' = "setup"
  /\ UNCHANGED <<stopRet, spawned, deadline, now, nextProgressReport,
                 progressReports, results, total, retErr, reports>>
  /\ UNCHANGED <<awaitVars, weightVars, exprVars, clientVars, flagVars, procVars, sigVars, workerVars, parseVars, scriptVars>>

MainInit ==
  /\ Running
  /\ pc = "init"
  /\ IF fInitMode
       THEN /\ initRuns' = initRuns + 1
            /\ IF initWorkload
                 THEN Exit(1, "fatal") /\ pc' = pc
                 ELSE pc' = "setup" /\ UNCHANGED procVars
       ELSE /\ pc' = "setup"
            /\ UNCHANGED <<initRuns, procVars>>
  /\ UNCHANGED <<stopRet, spawned, deadline, now, nextProgressReport,
                 progressReports, results, total, retErr, reports>>
  /\ UNCHANGED <<awaitVars, weightVars, exprVars, clientVars, flagVars, sigVars, workerVars, parseVars, scriptVars>>

\* runBenchmark: stopCh, stop := neobench.SetupSignalHandler()
\* makes the channels, installs signal.Notify and starts the handler goroutine
SetupSignalHandler ==
  /\ Running
  /\ pc = "setup"
  /\ stopCh' = "chan"
  /\ closed' = FALSE
  /\ sigCh' = 0
  /\ hpc' = "start"
  /\ pc' = "spawn"
  /\ UNCHANGED <<hsel, signalCount>>
  /\ UNCHANGED <<stopRet, spawned, deadline, now, nextProgressReport,
                 progressReports, results, total, retErr, reports, initRuns>>
  /\ UNCHANGED <<awaitVars, weightVars, exprVars, clientVars, flagVars, procVars, workerVars, parseVars, scriptVars>>

\* runBenchmark: one round of the spawn loop: wg.Add(1), the worker's goroutine
\* the spawn loop giving every client the first value of a generator made of
\* the seed, instead of the next value of wrk.Rand
SpawnWorkerFirstDraw ==
  /\ Running
  /\ pc = "spawn"
  /\ spawned < NumClients
  /\ wg' = wg + 1
  /\ clientSeed' = [clientSeed EXCEPT ![spawned] = Int63(NewSource(seed)).val]
  /\ wrkRand' = Int63(wrkRand).rnd
  /\ wpc' = [wpc EXCEPT ![spawned] = "run"]
  /\ spawned' = spawned + 1
  /\ UNCHANGED <<pc, stopRet, deadline, now, nextProgressReport,
                 progressReports, results, total, retErr, reports, initRuns>>
  /\ UNCHANGED <<wres, resultChan>>
  /\ UNCHANGED <<awaitVars, weightVars, exprVars, flagVars, procVars, sigVars, parseVars, scriptVars>>

SpawnWorker ==
  /\ Running
  /\ pc = "spawn"
  /\ spawned < NumClients
  /\ wg' = wg + 1
  /\ clientSeed' = [clientSeed EXCEPT ![spawned] = Int63(wrkRand).val]
  /\ wrkRand' = Int63(wrkRand).rnd
  /\ wpc' = [wpc EXCEPT ![spawned] = "run"]
  /\ spawned' = spawned + 1
  /\ UNCHANGED <<pc, stopRet, deadline, now, nextProgressReport,
                 progressReports, results, total, retErr, reports, initRuns>>
  /\ UNCHANGED <<wres, resultChan>>
  /\ UNCHANGED <<awaitVars, weightVars, exprVars, flagVars, procVars, sigVars, parseVars, scriptVars>>

\* runBenchmark: deadline := time.Now().Add(runtime), and awaitCompletion's
\* first two lines
AwaitStart ==
  /\ Running
  /\ pc = "spawn"
  /\ spawned = NumClients
  /\ deadline' = now + runtime
  /\ nextProgressReport' = now + progressInterval
  /\ originalDelta' = deadline' - now
  /\ pc' = "await_head"
  /\ UNCHANGED <<stopRet, spawned, now, progressReports, results, total,
                 retErr, reports, initRuns>>
  /\ UNCHANGED <<recorders, weightVars, exprVars, clientVars, flagVars, procVars, sigVars, workerVars, parseVars, scriptVars>>

\* awaitCompletion: select { case <-stopCh: return }, then stop() of runBenchmark
AwaitStopped ==
  /\ Running
  /\ pc = "await_head"
  /\ closed
  /\ pc' = "stop_if"
  /\ stopRet' = "wait"
  /\ UNCHANGED <<spawned, deadline, now, nextProgressReport, progressReports,
                 results, total, retErr, reports, initRuns>>
  /\ UNCHANGED <<awaitVars, weightVars, exprVars, clientVars, flagVars, procVars, sigVars, workerVars, parseVars, scriptVars>>

\* awaitCompletion: delta < 2*time.Second: time.Sleep(delta) begins
AwaitFinalSleep ==
  /\ Running
  /\ pc = "await_head"
  /\ ~closed
  /\ deadline - now < FinalWindow
  /\ pc' = "await_final"
  /\ UNCHANGED <<stopRet, spawned, deadline, now, nextProgressReport,
                 progressReports, results, total, retErr, reports, initRuns>>
  /\ UNCHANGED <<awaitVars, weightVars, exprVars, clientVars, flagVars, procVars, sigVars, workerVars, parseVars, scriptVars>>

\* awaitCompletion with a final sleep that a close of the stop channel ends
AwaitFinalWakeOnClose ==
  /\ Running
  /\ pc = "await_final"
  /\ now' = IF deadline > now /\ ~closed THEN deadline ELSE now
  /\ pc' = "stop_if"
  /\ stopRet' = "wait"
  /\ UNCHANGED <<spawned, deadline, nextProgressReport, progressReports,
                 results, total, retErr, reports, initRuns>>
  /\ UNCHANGED <<awaitVars, weightVars, exprVars, clientVars, flagVars, procVars, sigVars, workerVars, parseVars, scriptVars>>

\* awaitCompletion: time.Sleep(delta) ends, break, and on to stop() of runBenchmark
AwaitFinalWake ==
  /\ Running
  /\ pc = "await_final"
  /\ now' = IF deadline > now THEN deadline ELSE now
  /\ pc' = "stop_if"
  /\ stopRet' = "wait"
  /\ UNCHANGED <<spawned, deadline, nextProgressReport, progressReports,
                 results, total, retErr, reports, initRuns>>
  /\ UNCHANGED <<awaitVars, weightVars, exprVars, clientVars, flagVars, procVars, sigVars, workerVars, parseVars, scriptVars>>

\* checkpoint.Add(r.ProgressReport(time.Now())) for the recorders of ws: the
\* sum of what they have recorded
RECURSIVE Checkpoint(_)
Checkpoint(ws) ==
  IF ws = {} THEN 0
  ELSE LET w == CHOOSE x \in ws : TRUE IN recorders[w] + Checkpoint(ws \ {w})

\* out.ReportWorkloadProgress(completeness, checkpoint), with completeness
\* 1 - delta.Seconds()/originalDelta as the pair of delta and originalDelta
ProgressReport(checkpoint) ==
  [delta |-> deadline - now, originalDelta |-> originalDelta,
   checkpoint |-> checkpoint]

\* awaitCompletion reporting without moving nextProgressReport on
AwaitTickKeepingNext ==
  /\ Running
  /\ pc = "await_head"
  /\ ~closed
  /\ ~(deadline - now < FinalWindow)
  /\ IF now > nextProgressReport
       THEN /\ progressReports' =
                 Append(progressReports, ProgressReport(Checkpoint(Workers)))
            /\ UNCHANGED nextProgressReport
       ELSE UNCHANGED <<nextProgressReport, progressReports>>
  /\ \E lag \in 0 .. MaxLag : now' = now + 1 + lag
  /\ UNCHANGED <<pc, stopRet, spawned, deadline, results, total, retErr,
                 reports, initRuns>>
  /\ UNCHANGED <<awaitVars, weightVars, exprVars, clientVars, flagVars, procVars, sigVars, workerVars, parseVars, scriptVars>>

\* awaitCompletion: the progress report when one is due, time.Sleep(100ms)
\* (the sleep lasts 100 ms at least)
AwaitTick ==
  /\ Running
  /\ pc = "await_head"
  /\ ~closed
  /\ ~(deadline - now < FinalWindow)
  /\ IF now > nextProgressReport
       THEN /\ nextProgressReport' = nextProgressReport + progressInterval
            /\ progressReports' =
                 Append(progressReports, ProgressReport(Checkpoint(Workers)))
       ELSE UNCHANGED <<nextProgressReport, progressReports>>
  /\ \E lag \in 0 .. MaxLag : now' = now + 1 + lag
  /\ UNCHANGED <<pc, stopRet, spawned, deadline, results, total, retErr,
                 reports, initRuns>>
  /\ UNCHANGED <<awaitVars, weightVars, exprVars, clientVars, flagVars, procVars, sigVars, workerVars, parseVars, scriptVars>>

\* stop() called by runBenchmark (after awaitCompletion, and deferred): the test
CoordStopIf ==
  /\ Running
  /\ pc = "stop_if"
  /\ pc' = IF stopFuncIsSet THEN "stop_close" ELSE stopRet
  /\ UNCHANGED <<stopRet, spawned, deadline, now, nextProgressReport,
                 progressReports, results, total, retErr, reports, initRuns>>
  /\ UNCHANGED <<awaitVars, weightVars, exprVars, clientVars, flagVars, procVars, sigVars, workerVars, parseVars, scriptVars>>

\* stop() called by runBenchmark: close(stopCh)
CoordStopClose ==
  /\ Running
  /\ pc = "stop_close"
  /\ stopFuncClose
  /\ pc' = IF closePanics THEN pc ELSE "stop_nil"
  /\ UNCHANGED <<stopCh, sigCh, hpc, hsel, signalCount>>
  /\ UNCHANGED <<stopRet, spawned, deadline, now, nextProgressReport,
                 progressReports, results, total, retErr, reports, initRuns>>
  /\ UNCHANGED <<awaitVars, weightVars, exprVars, clientVars, flagVars, workerVars, parseVars, scriptVars>>

\* stop() called by runBenchmark: stopCh = nil
CoordStopNil ==
  /\ Running
  /\ pc = "stop_nil"
  /\ stopFuncNil
  /\ pc' = stopRet
  /\ UNCHANGED <<closed, sigCh, hpc, hsel, signalCount>>
  /\ UNCHANGED <<stopRet, spawned, deadline, now, nextProgressReport,
                 progressReports, results, total, retErr, reports, initRuns>>
  /\ UNCHANGED <<awaitVars, weightVars, exprVars, clientVars, flagVars, procVars, workerVars, parseVars, scriptVars>>

\* runBenchmark: wg.Wait()
\* runBenchmark going on to collectResults without wg.Wait()
WgWaitWithoutJoin ==
  /\ Running
  /\ pc = "wait"
  /\ pc' = "collect"
  /\ UNCHANGED <<stopRet, spawned, deadline, now, nextProgressReport,
                 progressReports, results, total, retErr, reports, initRuns>>
  /\ UNCHANGED <<awaitVars, weightVars, exprVars, clientVars, flagVars, procVars, sigVars, workerVars, parseVars, scriptVars>>

WgWait ==
  /\ Running
  /\ pc = "wait"
  /\ wg = 0
  /\ pc' = "collect"
  /\ UNCHANGED <<stopRet, spawned, deadline, now, nextProgressReport,
                 progressReports, results, total, retErr, reports, initRuns>>
  /\ UNCHANGED <<awaitVars, weightVars, exprVars, clientVars, flagVars, procVars, sigVars, workerVars, parseVars, scriptVars>>

\* the success and failure counts a worker may report
CountValues == {0, MaxCount}

\* collectResults: results = append(results, <-resultChan), concurrency times
CollectRecv ==
  /\ Running
  /\ pc = "collect"
  /\ Len(results) < NumClients
  /\ resultChan # <<>>
  /\ \E s \in CountValues, f \in CountValues :
       results' = Append(results,
         WorkerResult(Head(resultChan).workerId, Head(resultChan).err, s, f))
  /\ resultChan' = Tail(resultChan)
  /\ UNCHANGED <<pc, stopRet, spawned, deadline, now, nextProgressReport,
                 progressReports, total, retErr, reports, initRuns>>
  /\ UNCHANGED <<wpc, wres, wg>>
  /\ UNCHANGED <<awaitVars, weightVars, exprVars, clientVars, flagVars, procVars, sigVars, parseVars, scriptVars>>

\* collectResults: the second loop: a result with an Error is logged and
\* skipped (continue), every other one is added to the total
\* collectResults without the skip of results that carry an Error
RECURSIVE MergeEveryResult(_, _)
MergeEveryResult(t, rs) ==
  IF rs = <<>> THEN t
  ELSE MergeEveryResult(ResultAdd(t, Head(rs)), Tail(rs))

RECURSIVE MergeResults(_, _)
MergeResults(t, rs) ==
  IF rs = <<>> THEN t
  ELSE IF Head(rs).err
    THEN MergeResults(t, Tail(rs))
    ELSE MergeResults(ResultAdd(t, Head(rs)), Tail(rs))

\* collectResults returns (total, nil); runBenchmark's deferred stop() follows
CollectMerge ==
  /\ Running
  /\ pc = "collect"
  /\ Len(results) = NumClients
  /\ total' = MergeResults(NewResult, results)
  /\ retErr' = FALSE
  /\ pc' = "stop_if"
  /\ stopRet' = "report"
  /\ UNCHANGED <<spawned, deadline, now, nextProgressReport, progressReports,
                 results, reports, initRuns>>
  /\ UNCHANGED <<awaitVars, weightVars, exprVars, clientVars, flagVars, procVars, sigVars, workerVars, parseVars, scriptVars>>

\* main after runBenchmark: an error exits with 1; otherwise ReportLatency or
\* ReportThroughput, then os.Exit(0) if result.TotalFailed() == 0, else os.Exit(1)
MainReport ==
  /\ Running
  /\ pc = "report"
  /\ IF retErr
       THEN /\ Exit(1, "main")
            /\ UNCHANGED reports
       ELSE /\ reports' = Append(reports, IF fLatencyMode THEN "latency" ELSE "throughput")
            /\ Exit(IF TotalFailed(total) = 0 THEN 0 ELSE 1, "main")
  /\ pc' = "exited"
  /\ UNCHANGED <<stopRet, spawned, deadline, now, nextProgressReport,
                 progressReports, results, total, retErr, initRuns>>
  /\ UNCHANGED <<awaitVars, weightVars, exprVars, clientVars, flagVars, sigVars, workerVars, parseVars, scriptVars>>

\* ------------------------------------------------- the signal handler goroutine
\* the operating system delivers SIGINT or SIGTERM during the run, that is
\* before awaitCompletion has returned: signal.Notify passes it to sigCh without
\* blocking, and drops it when the buffer is full. (A signal delivered later
\* finds the same handler, which is free to act as late.)
SignalArrive ==
  /\ Running
  /\ hpc # "none"
  /\ pc \in {"spawn", "await_head", "await_final"}
  /\ sigCh' = IF sigCh < SigChCap THEN sigCh + 1 ELSE sigCh
  /\ UNCHANGED <<stopCh, closed, hpc, hsel, signalCount>>
  /\ UNCHANGED <<awaitVars, weightVars, exprVars, clientVars, flagVars, coordVars, procVars, workerVars, parseVars, scriptVars>>

\* go func() { signalCount := 0; select { ... } }: the goroutine starts and the
\* select evaluates its channel operands, stopCh among them
HandlerStart ==
  /\ Running
  /\ hpc = "start"
  /\ signalCount' = 0
  /\ hsel' = stopCh
  /\ hpc' = "select"
  /\ UNCHANGED <<stopCh, closed, sigCh>>
  /\ UNCHANGED <<awaitVars, weightVars, exprVars, clientVars, flagVars, coordVars, procVars, workerVars, parseVars, scriptVars>>

\* case <-sigCh: signalCount++; switch signalCount { case 1: stopFunc()
\* case 2: os.Exit(1) }
HandlerSignal ==
  /\ Running
  /\ hpc = "select"
  /\ sigCh > 0
  /\ sigCh' = sigCh - 1
  /\ signalCount' = signalCount + 1
  /\ CASE signalCount + 1 = 1 -> hpc' = "stop_if" /\ UNCHANGED procVars
       [] signalCount + 1 = 2 -> hpc' = hpc /\ Exit(1, "signal")
       [] OTHER -> hpc' = "done" /\ UNCHANGED procVars
  /\ UNCHANGED <<stopCh, closed, hsel>>
  /\ UNCHANGED <<awaitVars, weightVars, exprVars, clientVars, flagVars, coordVars, workerVars, parseVars, scriptVars>>

\* case <-stopCh: the goroutine ends. A receive from a nil channel never proceeds
HandlerStopped ==
  /\ Running
  /\ hpc = "select"
  /\ hsel = "chan"
  /\ closed
  /\ hpc' = "done"
  /\ UNCHANGED <<stopCh, closed, sigCh, hsel, signalCount>>
  /\ UNCHANGED <<awaitVars, weightVars, exprVars, clientVars, flagVars, coordVars, procVars, workerVars, parseVars, scriptVars>>

\* stopFunc() called by the handler: the test
HandlerStopIf ==
  /\ Running
  /\ hpc = "stop_if"
  /\ hpc' = IF stopFuncIsSet THEN "stop_close" ELSE "done"
  /\ UNCHANGED <<stopCh, closed, sigCh, hsel, signalCount>>
  /\ UNCHANGED <<awaitVars, weightVars, exprVars, clientVars, flagVars, coordVars, procVars, workerVars, parseVars, scriptVars>>

\* stopFunc() called by the handler: close(stopCh)
HandlerStopClose ==
  /\ Running
  /\ hpc = "stop_close"
  /\ stopFuncClose
  /\ hpc' = IF closePanics THEN hpc ELSE "stop_nil"
  /\ UNCHANGED <<stopCh, sigCh, hsel, signalCount>>
  /\ UNCHANGED <<awaitVars, weightVars, exprVars, clientVars, flagVars, coordVars, workerVars, parseVars, scriptVars>>

\* stopFunc() called by the handler: stopCh = nil, and the goroutine ends
HandlerStopNil ==
  /\ Running
  /\ hpc = "stop_nil"
  /\ stopFuncNil
  /\ hpc' = "done"
  /\ UNCHANGED <<closed, sigCh, hsel, signalCount>>
  /\ UNCHANGED <<awaitVars, weightVars, exprVars, clientVars, flagVars, coordVars, procVars, workerVars, parseVars, scriptVars>>

\* ------------------------------------------------------- the worker goroutines
\* worker.RunBenchmark returns its WorkerResult: with a terminal error at any
\* time, without one once it has seen the shutdown signal at a loop head. The
\* goroutine reads nothing of the result but its Error: the counts are drawn
\* where collectResults receives the result
WorkerReturn(w) ==
  /\ Running
  /\ wpc[w] = "run"
  /\ \E err \in BOOLEAN :
       /\ err \/ closed
       /\ wres' = [wres EXCEPT ![w] = [workerId |-> w, err |-> err]]
  /\ wpc' = [wpc EXCEPT ![w] = "send"]
  /\ UNCHANGED <<resultChan, wg>>
  /\ UNCHANGED <<awaitVars, weightVars, exprVars, clientVars, flagVars, coordVars, procVars, sigVars, parseVars, scriptVars>>

\* worker.RunBenchmark: the worker's recorder records a transaction
WorkerRecord(w) ==
  /\ Running
  /\ wpc[w] = "run"
  /\ recorders[w] < MaxCount
  /\ recorders' = [recorders EXCEPT ![w] = @ + 1]
  /\ UNCHANGED originalDelta
  /\ UNCHANGED <<weightVars, exprVars, runVars, parseVars, scriptVars>>

\* resultChan <- result, on a channel of capacity numClients, then
\* if result.Error != nil { out.Errorf(...); stop() }, or else the deferred wg.Done()
\* the worker goroutine without the stop() after a result with an Error
WorkerSendWithoutStop(w) ==
  /\ Running
  /\ wpc[w] = "send"
  /\ Len(resultChan) < NumClients
  /\ resultChan' = Append(resultChan, wres[w])
  /\ wpc' = [wpc EXCEPT ![w] = "done"]
  /\ wg' = wg - 1
  /\ UNCHANGED wres
  /\ UNCHANGED <<awaitVars, weightVars, exprVars, clientVars, flagVars, coordVars, procVars, sigVars, parseVars, scriptVars>>

WorkerSend(w) ==
  /\ Running
  /\ wpc[w] = "send"
  /\ Len(resultChan) < NumClients
  /\ resultChan' = Append(resultChan, wres[w])
  /\ IF wres[w].err
       THEN /\ wpc' = [wpc EXCEPT ![w] = "stop_if"]
            /\ wg' = wg
       ELSE /\ wpc' = [wpc EXCEPT ![w] = "done"]
            /\ wg' = wg - 1
  /\ UNCHANGED wres
  /\ UNCHANGED <<awaitVars, weightVars, exprVars, clientVars, flagVars, coordVars, procVars, sigVars, parseVars, scriptVars>>

\* stop() called by a worker: the test; when it fails stop() returns and the
\* deferred wg.Done() runs
WorkerStopIf(w) ==
  /\ Running
  /\ wpc[w] = "stop_if"
  /\ IF stopFuncIsSet
       THEN /\ wpc' = [wpc EXCEPT ![w] = "stop_close"]
            /\ wg' = wg
       ELSE /\ wpc' = [wpc EXCEPT ![w] = "done"]
            /\ wg' = wg - 1
  /\ UNCHANGED <<wres, resultChan>>
  /\ UNCHANGED <<awaitVars, weightVars, exprVars, clientVars, flagVars, coordVars, procVars, sigVars, parseVars, scriptVars>>

\* stop() called by a worker: close(stopCh)
WorkerStopClose(w) ==
  /\ Running
  /\ wpc[w] = "stop_close"
  /\ stopFuncClose
  /\ wpc' = [wpc EXCEPT ![w] = IF closePanics THEN "stop_close" ELSE "stop_nil"]
  /\ UNCHANGED <<stopCh, sigCh, hpc, hsel, signalCount>>
  /\ UNCHANGED <<wres, resultChan, wg>>
  /\ UNCHANGED <<awaitVars, weightVars, exprVars, clientVars, flagVars, coordVars, parseVars, scriptVars>>

\* stop() called by a worker: stopCh = nil, then the deferred wg.Done()
WorkerStopNil(w) ==
  /\ Running
  /\ wpc[w] = "stop_nil"
  /\ stopFuncNil
  /\ wpc' = [wpc EXCEPT ![w] = "done"]
  /\ wg' = wg - 1
  /\ UNCHANGED <<closed, sigCh, hpc, hsel, signalCount>>
  /\ UNCHANGED <<wres, resultChan>>
  /\ UNCHANGED <<awaitVars, weightVars, exprVars, clientVars, flagVars, coordVars, procVars, parseVars, scriptVars>>

\* ------------------------------------------------------- the run, as a whole
\* Parse is not running in this specification
\* ------------------------------------------------------------- the parser
\* Parse reads its input through a text/scanner.Scanner; the model takes the
\* input as the sequence of tokens the scanner yields, each with its text.
Tok(kind, text) == [tok |-> kind, text |-> text]
\* context.peek == 0: no token has been peeked
NoTok == Tok("none", "")
\* scanner.EOF, with the empty TokenText
EOFTok == Tok("EOF", "")

\* a nil error, and the error that fmt.Errorf makes of a message and what it
\* names (a token, a text)
NoErr == [what |-> "nil", got |-> "", at |-> 0]
Errorf(what, got) == [what |-> what, got |-> got, at |-> 0]

\* strconv.Atoi on the texts of the model's Int tokens: decimal texts convert,
\* a hexadecimal literal (an Int token of the scanner) does not
Atoi(text) ==
  CASE text = "1" -> [ok |-> TRUE, val |-> 1]
    [] text = "2" -> [ok |-> TRUE, val |-> 2]
    [] text = "4" -> [ok |-> TRUE, val |-> 4]
    [] OTHER -> [ok |-> FALSE, val |-> 0]

\* Expression{}: the zero value, and the three kinds the parser builds
ZeroExpr == [kind |-> "zero", name |-> "", val |-> 0, args |-> <<>>]
IntExpr(v) == [kind |-> "int", name |-> "", val |-> v, args |-> <<>>]
VarExpr(name) == [kind |-> "var", name |-> name, val |-> 0, args |-> <<>>]
CallExpr(name, args) == [kind |-> "call", name |-> name, val |-> 0, args |-> args]

\* the commands: a nil Command (what metaCommand returns on an unknown meta
\* command), SetCommand and QueryCommand (the query as the texts written to b)
NilCommand == [kind |-> "nil", varName |-> "", expression |-> ZeroExpr, query |-> <<>>]
SetCommand(varName, e) ==
  [kind |-> "set", varName |-> varName, expression |-> e, query |-> <<>>]
QueryCommand(q) ==
  [kind |-> "query", varName |-> "", expression |-> ZeroExpr, query |-> q]

\* c := &context{s: s}; failed is the history of the calls of fail
NewContext ==
  [pos |-> 0, peek |-> NoTok, done |-> FALSE, err |-> NoErr, failed |-> <<>>]

\* s.Scan(): the next token, the scanner's position moved past it; at the end
\* of the input EOF, again and again, the position staying where it is
Scan(cx) ==
  IF cx.pos < Len(input)
    THEN [c |-> [cx EXCEPT !.pos = cx.pos + 1], tok |-> input[cx.pos + 1]]
    ELSE [c |-> cx, tok |-> EOFTok]

\* context.Peek: the context afterwards; the token is its peek
contextPeek(cx) ==
  IF cx.peek = NoTok
    THEN [Scan(cx).c EXCEPT !.peek = Scan(cx).tok]
    ELSE cx

\* context.Next
contextNext(cx) ==
  IF cx.peek # NoTok
    THEN [c |-> [cx EXCEPT !.peek = NoTok,
                           !.done = (cx.peek.tok = "EOF") \/ cx.done],
          tok |-> cx.peek]
    ELSE [c |-> [Scan(cx).c EXCEPT !.done = (Scan(cx).tok.tok = "EOF") \/ cx.done],
          tok |-> Scan(cx).tok]

\* context.fail with the err of every call taking the place of the one before
failKeepingLast(cx, e) ==
  [cx EXCEPT !.done = TRUE,
             !.err = [e EXCEPT !.at = cx.pos],
             !.failed = Append(cx.failed, [e EXCEPT !.at = cx.pos])]

\* context.fail: the error gets the scanner's position, the first error stays
fail(cx, e) ==
  [cx EXCEPT !.done = TRUE,
             !.err = IF cx.err # NoErr THEN cx.err ELSE [e EXCEPT !.at = cx.pos],
             !.failed = Append(cx.failed, [e EXCEPT !.at = cx.pos])]

expect(cx, expected) ==
  LET n == contextNext(cx) IN
  IF n.tok.tok # expected
    THEN fail(n.c, Errorf("expected, got", n.tok.tok))
    ELSE n.c

ident(cx) ==
  LET n == contextNext(cx) IN
  [c |-> IF n.tok.tok # "Ident"
           THEN fail(n.c, Errorf("expected identifier, got", n.tok.tok))
           ELSE n.c,
   text |-> n.tok.text]

RECURSIVE expr(_)
RECURSIVE factor(_)
RECURSIVE factorArgs(_, _, _)

\* the loop of factor that reads a call's arguments, entered with the token
\* after '(' or after an argument peeked
factorArgs(cx, funcName, args) ==
  IF cx.peek.tok = "RParen"
    THEN [c |-> contextNext(cx).c, e |-> CallExpr(funcName, args)]
    ELSE LET c1 == IF Len(args) > 0 THEN expect(cx, "Comma") ELSE cx
             a == expr(c1)
         IN IF a.c.done
              THEN [c |-> a.c, e |-> ZeroExpr]
              ELSE factorArgs(contextPeek(a.c), funcName, Append(args, a.e))

factor(cx) ==
  LET n == contextNext(cx) IN
  CASE n.tok.tok = "Ident" ->
         factorArgs(contextPeek(expect(n.c, "LParen")), n.tok.text, <<>>)
    [] n.tok.tok = "Int" ->
         IF ~Atoi(n.tok.text).ok
           THEN [c |-> fail(n.c, Errorf("strconv.Atoi: invalid syntax", n.tok.text)),
                 e |-> ZeroExpr]
           ELSE [c |-> n.c, e |-> IntExpr(Atoi(n.tok.text).val)]
    [] n.tok.tok = "Minus" ->
         LET m == contextNext(n.c) IN
         IF m.tok.tok = "Int"
           THEN IF ~Atoi(m.tok.text).ok
                  THEN [c |-> fail(m.c, Errorf("strconv.Atoi: invalid syntax", m.tok.text)),
                        e |-> ZeroExpr]
                  ELSE [c |-> m.c, e |-> IntExpr(-1 * Atoi(m.tok.text).val)]
           ELSE [c |-> fail(m.c, Errorf("unexpected token, expected integer after minus sign",
                                        m.tok.tok)),
                 e |-> ZeroExpr]
    [] n.tok.tok = "Colon" ->
         [c |-> ident(n.c).c, e |-> VarExpr(ident(n.c).text)]
    [] OTHER ->
         [c |-> fail(n.c, Errorf("unexpected token, expected Expression", n.tok.tok)),
          e |-> ZeroExpr]

term(cx) == factor(cx)

expr(cx) ==
  LET lhs == term(cx)
      pk == contextPeek(lhs.c)
  IN IF pk.peek.tok = "Star"
       THEN LET rhs == term(contextNext(pk).c)
            IN [c |-> rhs.c, e |-> CallExpr("*", <<lhs.e, rhs.e>>)]
       ELSE [c |-> pk, e |-> lhs.e]

metaCommand(cx) ==
  LET cmd == ident(expect(cx, "Backslash")) IN
  IF cmd.text = "set"
    THEN LET varName == ident(cmd.c)
             setExpr == expr(varName.c)
         IN [c |-> setExpr.c, cmd |-> SetCommand(varName.text, setExpr.e)]
    ELSE [c |-> fail(cmd.c, Errorf("unexpected meta command", cmd.text)),
          cmd |-> NilCommand]

\* Parse: the head of the loop with c.done set
ParseLoopDone ==
  /\ ppc = "loop"
  /\ c.done
  /\ ppc' = "check"
  /\ UNCHANGED <<input, c, commands, b, ret>>
  /\ UNCHANGED <<awaitVars, weightVars, exprVars, runVars, scriptVars>>

\* Parse: tok == scanner.EOF, break
ParseLoopEOF ==
  /\ ppc = "loop"
  /\ ~c.done
  /\ contextPeek(c).peek.tok = "EOF"
  /\ c' = contextPeek(c)
  /\ ppc' = "check"
  /\ UNCHANGED <<input, commands, b, ret>>
  /\ UNCHANGED <<awaitVars, weightVars, exprVars, runVars, scriptVars>>

\* Parse: tok == '\\', commands = append(commands, metaCommand(c))
ParseLoopMeta ==
  /\ ppc = "loop"
  /\ ~c.done
  /\ contextPeek(c).peek.tok = "Backslash"
  /\ c' = metaCommand(contextPeek(c)).c
  /\ commands' = Append(commands, metaCommand(contextPeek(c)).cmd)
  /\ UNCHANGED <<input, b, ppc, ret>>
  /\ UNCHANGED <<awaitVars, weightVars, exprVars, runVars, scriptVars>>

\* Parse: tok == '\n', c.Next()
ParseLoopNewline ==
  /\ ppc = "loop"
  /\ ~c.done
  /\ contextPeek(c).peek.tok = "Newline"
  /\ c' = contextNext(contextPeek(c)).c
  /\ UNCHANGED <<input, commands, b, ppc, ret>>
  /\ UNCHANGED <<awaitVars, weightVars, exprVars, runVars, scriptVars>>

\* Parse: any other token, command(c) is entered with an empty builder
ParseLoopCommand ==
  /\ ppc = "loop"
  /\ ~c.done
  /\ contextPeek(c).peek.tok \notin {"EOF", "Backslash", "Newline"}
  /\ c' = contextPeek(c)
  /\ b' = <<>>
  /\ ppc' = "command"
  /\ UNCHANGED <<input, commands, ret>>
  /\ UNCHANGED <<awaitVars, weightVars, exprVars, runVars, scriptVars>>

\* command: one turn of its loop, tok != ';': b.WriteString(content), which
\* leaves b as it is when the content is the empty text
CommandNext ==
  /\ ppc = "command"
  /\ contextNext(c).tok.tok # "Semi"
  /\ c' = contextNext(c).c
  /\ b' = IF contextNext(c).tok.text = "" THEN b ELSE Append(b, contextNext(c).tok.text)
  /\ UNCHANGED <<input, commands, ppc, ret>>
  /\ UNCHANGED <<awaitVars, weightVars, exprVars, runVars, scriptVars>>

\* command: tok == ';', the loop ends and Parse appends the QueryCommand
CommandEnd ==
  /\ ppc = "command"
  /\ contextNext(c).tok.tok = "Semi"
  /\ c' = contextNext(c).c
  /\ commands' = Append(commands, QueryCommand(b))
  /\ b' = <<>>
  /\ ppc' = "loop"
  /\ UNCHANGED <<input, ret>>
  /\ UNCHANGED <<awaitVars, weightVars, exprVars, runVars, scriptVars>>

\* Parse: if c.err != nil, return Workload{}, c.err
ParseReturnErr ==
  /\ ppc = "check"
  /\ c.err # NoErr
  /\ ret' = [isSet |-> TRUE, commands |-> <<>>, err |-> c.err]
  /\ ppc' = "returned"
  /\ UNCHANGED <<input, c, commands, b>>
  /\ UNCHANGED <<awaitVars, weightVars, exprVars, runVars, scriptVars>>

\* Parse: return Workload{..., Commands: commands, ...}, nil
ParseReturnOk ==
  /\ ppc = "check"
  /\ c.err = NoErr
  /\ ret' = [isSet |-> TRUE, commands |-> commands, err |-> NoErr]
  /\ wl' = [isSet |-> TRUE, readonly |-> FALSE, scale |-> scale,
            commands |-> commands, rand |-> NewSource(seed)]
  /\ ppc' = "returned"
  /\ UNCHANGED <<input, c, commands, b>>
  /\ UNCHANGED <<scale, seed, heap, grand, cw, ctx, uow, ip, npc, nret, units, taken>>
  /\ UNCHANGED <<awaitVars, weightVars, exprVars, runVars>>

\* the tokens of the model's inputs
tBackslash == Tok("Backslash", "\\")
tNewline == Tok("Newline", "\n")
tSemi == Tok("Semi", ";")
tStar == Tok("Star", "*")
tMinus == Tok("Minus", "-")
tColon == Tok("Colon", ":")
tLParen == Tok("LParen", "(")
tRParen == Tok("RParen", ")")
tComma == Tok("Comma", ",")
tSet == Tok("Ident", "set")
tX == Tok("Ident", "x")
tRandom == Tok("Ident", "random")
tOne == Tok("Int", "1")
tTwo == Tok("Int", "2")
tHex == Tok("Int", "0x1F")
tFour == Tok("Int", "4")
tPlus == Tok("Plus", "+")
tSlash == Tok("Slash", "/")
tReturn == Tok("Ident", "RETURN")
tSleep == Tok("Ident", "sleep")
tS == Tok("Ident", "s")
tMs == Tok("Ident", "ms")
tUs == Tok("Ident", "us")
tDays == Tok("Ident", "days")
tScale == Tok("Ident", "scale")
tY == Tok("Ident", "y")

\* the pieces the model's inputs are made of
Fragments ==
  { <<tBackslash, tSet, tX>>, <<tBackslash, tSet, tX, tOne, tNewline>>,
    <<tBackslash, tSet, tOne>>, <<tBackslash, tX>>, <<tBackslash>>,
    <<tOne>>, <<tHex>>, <<tStar, tTwo>>, <<tStar>>,
    <<tMinus, tOne>>, <<tMinus, tHex>>, <<tMinus>>,
    <<tColon, tX>>, <<tColon>>,
    <<tRandom, tLParen, tRParen>>,
    <<tRandom, tLParen, tOne, tComma, tTwo, tRParen>>,
    <<tRandom, tLParen, tOne, tTwo, tRParen>>,
    <<tRandom, tLParen, tOne, tComma>>, <<tRandom>>,
    <<tNewline>>, <<tSemi>>, <<tX, tSemi>>, <<tX>> }

\* the inputs made of at most n pieces
RECURSIVE Scripts(_)
Scripts(n) ==
  IF n = 0 THEN {<<>>}
  ELSE Scripts(n - 1) \cup {s \o f : s \in Scripts(n - 1), f \in Fragments}

\* Parse has not been called
ParseIdle ==
  /\ input = <<>>
  /\ c = NewContext
  /\ commands = <<>>
  /\ b = <<>>
  /\ ppc = "idle"
  /\ ret = [isSet |-> FALSE, commands |-> <<>>, err |-> NoErr]

\* ---------------------------------------------------- ClientWorkload.Next
\* m[k] = v on a map of Go
Put(m, k, v) == [x \in DOMAIN m \cup {k} |-> IF x = k THEN v ELSE m[x]]

\* the variables of Next without the entry for scale
NoVars(s) == [x \in {} |-> IntVal(s)]

\* map[string]interface{}{"scale": s.Scale}
ScaleVars(s) == [x \in {"scale"} |-> IntVal(s)]

\* Workload.NewClient: the client's generator is seeded with the next Int63 of
\* the workload's generator. A client made while another exists takes its
\* place in cw: the calls of Next of the model are one after the other
NewClient ==
  /\ wl.isSet
  /\ npc \in {"idle", "returned"}
  /\ wl.rand.n < NumClients
  /\ cw' = [isSet |-> TRUE, readonly |-> wl.readonly, scale |-> wl.scale,
            commands |-> wl.commands, rand |-> NewSource(Int63(wl.rand).val)]
  /\ wl' = [wl EXCEPT !.rand = Int63(wl.rand).rnd]
  /\ UNCHANGED <<scale, seed, heap, grand, ctx, uow, ip, npc, nret, units, taken>>
  /\ UNCHANGED <<awaitVars, weightVars, exprVars, runVars, parseVars>>

\* ClientWorkload.Next with the map of the context of the call before
ClientNextStartKeepingVars ==
  /\ cw.isSet
  /\ npc \in {"idle", "returned"}
  /\ Len(units) < MaxNextCalls
  /\ heap' = Append(heap, ScaleVars(cw.scale))
  /\ ctx' = IF ctx.isSet THEN ctx ELSE [isSet |-> TRUE, Vars |-> Len(heap) + 1]
  /\ uow' = [isSet |-> TRUE, Readonly |-> cw.readonly, Statements |-> <<>>]
  /\ taken' = <<>>
  /\ ip' = 1
  /\ npc' = "loop"
  /\ UNCHANGED <<scale, seed, wl, grand, cw, nret, units>>
  /\ UNCHANGED <<awaitVars, weightVars, exprVars, runVars, parseVars>>

\* ClientWorkload.Next: ctx with a new map of the variables, the empty uow
ClientNextStart ==
  /\ cw.isSet
  /\ npc \in {"idle", "returned"}
  /\ Len(units) < MaxNextCalls
  /\ heap' = Append(heap, ScaleVars(cw.scale))
  /\ ctx' = [isSet |-> TRUE, Vars |-> Len(heap) + 1]
  /\ uow' = [isSet |-> TRUE, Readonly |-> cw.readonly, Statements |-> <<>>]
  /\ taken' = <<>>
  /\ ip' = 1
  /\ npc' = "loop"
  /\ UNCHANGED <<scale, seed, wl, grand, cw, nret, units>>
  /\ UNCHANGED <<awaitVars, weightVars, exprVars, runVars, parseVars>>

\* QueryCommand.Execute storing the map of the context in the statement
QueryExecuteSharingVars ==
  /\ npc = "loop"
  /\ ip <= Len(cw.commands)
  /\ cw.commands[ip].kind = "query"
  /\ uow' = [uow EXCEPT !.Statements =
               Append(@, [Query |-> cw.commands[ip].query, Params |-> ctx.Vars])]
  /\ taken' = Append(taken, heap[ctx.Vars])
  /\ ip' = ip + 1
  /\ UNCHANGED <<scale, seed, wl, heap, grand, cw, ctx, npc, nret, units>>
  /\ UNCHANGED <<awaitVars, weightVars, exprVars, runVars, parseVars>>

\* QueryCommand.Execute putting its statement before those of the unit of work
QueryExecutePrepending ==
  /\ npc = "loop"
  /\ ip <= Len(cw.commands)
  /\ cw.commands[ip].kind = "query"
  /\ heap' = Append(heap, heap[ctx.Vars])
  /\ uow' = [uow EXCEPT !.Statements =
               <<[Query |-> cw.commands[ip].query, Params |-> Len(heap) + 1]>> \o @]
  /\ taken' = <<heap[ctx.Vars]>> \o taken
  /\ ip' = ip + 1
  /\ UNCHANGED <<scale, seed, wl, grand, cw, ctx, npc, nret, units>>
  /\ UNCHANGED <<awaitVars, weightVars, exprVars, runVars, parseVars>>

\* QueryCommand.Execute: params is a new map with the entries of ctx.Vars
QueryExecute ==
  /\ npc = "loop"
  /\ ip <= Len(cw.commands)
  /\ cw.commands[ip].kind = "query"
  /\ heap' = Append(heap, heap[ctx.Vars])
  /\ uow' = [uow EXCEPT !.Statements =
               Append(@, [Query |-> cw.commands[ip].query, Params |-> Len(heap) + 1])]
  /\ taken' = Append(taken, heap[ctx.Vars])
  /\ ip' = ip + 1
  /\ UNCHANGED <<scale, seed, wl, grand, cw, ctx, npc, nret, units>>
  /\ UNCHANGED <<awaitVars, weightVars, exprVars, runVars, parseVars>>

\* the unit of work as its reader finds it: each statement with the entries
\* of its params
Resolved(u) ==
  [i \in 1 .. Len(u.Statements) |->
     [Query |-> u.Statements[i].Query, Params |-> heap[u.Statements[i].Params]]]

\* SetCommand.Execute going on to the next command after an error
SetExecuteOfIgnoringError(r) ==
  /\ cw' = [cw EXCEPT !.rand = r.rnd]
  /\ grand' = r.g
  /\ IF r.panic
       THEN /\ npc' = "panicked"
            /\ UNCHANGED <<heap, ip, nret, units>>
       ELSE /\ heap' = IF r.ok
                         THEN [heap EXCEPT ![ctx.Vars] =
                                 Put(@, cw.commands[ip].varName, r.val)]
                         ELSE heap
            /\ ip' = ip + 1
            /\ UNCHANGED <<npc, nret, units>>

\* SetCommand.Execute, the evaluation of the expression being r
SetExecuteOf(r) ==
  /\ cw' = [cw EXCEPT !.rand = r.rnd]
  /\ grand' = r.g
  /\ IF r.panic
       THEN /\ npc' = "panicked"
            /\ UNCHANGED <<heap, ip, nret, units>>
       ELSE IF ~r.ok
         THEN /\ nret' = [isSet |-> TRUE, uow |-> Resolved(uow), err |-> r.err]
              /\ units' = Append(units, Resolved(uow))
              /\ npc' = "returned"
              /\ UNCHANGED <<heap, ip>>
         ELSE /\ heap' = [heap EXCEPT ![ctx.Vars] = Put(@, cw.commands[ip].varName, r.val)]
              /\ ip' = ip + 1
              /\ UNCHANGED <<npc, nret, units>>

\* SetCommand.Execute
SetExecute ==
  /\ npc = "loop"
  /\ ip <= Len(cw.commands)
  /\ cw.commands[ip].kind = "set"
  /\ SetExecuteOf(ExpressionEval(cw.commands[ip].expression, heap[ctx.Vars],
                                 cw.rand, grand))
  /\ UNCHANGED <<scale, seed, wl, ctx, uow, taken>>
  /\ UNCHANGED <<awaitVars, weightVars, exprVars, runVars, parseVars>>

\* ClientWorkload.Next: every command executed, return uow, nil
ClientNextReturn ==
  /\ npc = "loop"
  /\ ip > Len(cw.commands)
  /\ nret' = [isSet |-> TRUE, uow |-> Resolved(uow), err |-> NoEvalErr]
  /\ units' = Append(units, Resolved(uow))
  /\ npc' = "returned"
  /\ UNCHANGED <<scale, seed, wl, heap, grand, cw, ctx, uow, ip, taken>>
  /\ UNCHANGED <<awaitVars, weightVars, exprVars, runVars, parseVars>>

\* no Workload yet, no ClientWorkload, no call of Next
ScriptIdle ==
  /\ wl = [isSet |-> FALSE]
  /\ heap = <<>>
  /\ grand = 0
  /\ cw = [isSet |-> FALSE]
  /\ ctx = [isSet |-> FALSE]
  /\ uow = [isSet |-> FALSE]
  /\ ip = 0
  /\ npc = "idle"
  /\ nret = [isSet |-> FALSE]
  /\ units = <<>>
  /\ taken = <<>>
  /\ xe = [kind |-> "zero", name |-> "", val |-> 0, args |-> <<>>]
  /\ xvars = <<>>
  /\ xouts = <<>>

\* ------------------------------------------------------- main: -w arguments
\* the default of the flag -w
DefaultWorkloads == << <<"builtin:tpcb-like">> >>

\* strings.Split(s, "@")
RECURSIVE Split(_)
Split(str) ==
  IF \A i \in 1 .. Len(str) : str[i] # "@" THEN <<str>>
  ELSE LET i == CHOOSE k \in 1 .. Len(str) :
                  str[k] = "@" /\ \A j \in 1 .. (k - 1) : str[j] # "@"
       IN <<SubSeq(str, 1, i - 1)>> \o Split(SubSeq(str, i + 1, Len(str)))

Digits == {"0", "1", "2"}
DigitVal(ch) == CASE ch = "0" -> 0 [] ch = "1" -> 1 [] ch = "2" -> 2

\* the value of a sequence of digits in base 10
RECURSIVE Decimal(_)
Decimal(ds) ==
  IF ds = <<>> THEN 0
  ELSE 10 * Decimal(SubSeq(ds, 1, Len(ds) - 1)) + DigitVal(ds[Len(ds)])

\* strconv.Atoi: an optional sign and then digits, at least one
strconvAtoi(str) ==
  LET signed == str # <<>> /\ str[1] \in {"-", "+"}
      ds == IF signed THEN Tail(str) ELSE str
  IN IF ds = <<>> \/ \E i \in 1 .. Len(ds) : ds[i] \notin Digits
       THEN [ok |-> FALSE, val |-> 0]
       ELSE [ok |-> TRUE,
             val |-> IF signed /\ str[1] = "-" THEN 0 - Decimal(ds) ELSE Decimal(ds)]

\* the conversion uint(weight) of an int, at the width of the model
ToUint(i) == i % (2 ^ IntBits)

\* main: parts, weight and path of the -w argument in turn
WorkloadParts == Split(fWorkloads[Len(scripts) + 1])
WorkloadWeight ==
  IF Len(WorkloadParts) > 1 THEN strconvAtoi(WorkloadParts[2])
  ELSE [ok |-> TRUE, val |-> 1]
WorkloadPath ==
  IF Len(WorkloadParts) > 1 THEN WorkloadParts[1] ELSE fWorkloads[Len(scripts) + 1]

\* the files that ioutil.ReadFile can read
Readable == {<<"a.script">>}

\* neobench.Parse(name, content, weight) without an error
ParseScript(name, weight, readonly) ==
  [Name |-> name, Weight |-> weight, Readonly |-> readonly]

\* main: the value after @ is no integer, log.Fatalf
MainWeightFatal ==
  /\ wlpc = "loop"
  /\ Len(scripts) < Len(fWorkloads)
  /\ ~WorkloadWeight.ok
  /\ wlpc' = "fatal"
  /\ UNCHANGED <<fWorkloads, scripts>>
  /\ UNCHANGED <<awaitVars, exprVars, runVars, parseVars, scriptVars>>

\* main: createScript returns an error (ReadFile, or the preflight against
\* the database), log.Fatal
MainCreateScriptFatal ==
  /\ wlpc = "loop"
  /\ Len(scripts) < Len(fWorkloads)
  /\ WorkloadWeight.ok
  /\ WorkloadPath \notin {<<"builtin:tpcb-like">>, <<"builtin:match-only">>}
  /\ wlpc' = "fatal"
  /\ UNCHANGED <<fWorkloads, scripts>>
  /\ UNCHANGED <<awaitVars, exprVars, runVars, parseVars, scriptVars>>

\* main: createScript(driver, dbName, variables, path, uint(weight)) returns a
\* script, which is appended to scripts
MainCreateScript ==
  /\ wlpc = "loop"
  /\ Len(scripts) < Len(fWorkloads)
  /\ WorkloadWeight.ok
  /\ \/ /\ WorkloadPath = <<"builtin:tpcb-like">>
        /\ scripts' = Append(scripts,
             ParseScript(<<"builtin:tpcp-like">>, ToUint(WorkloadWeight.val), FALSE))
     \/ /\ WorkloadPath = <<"builtin:match-only">>
        /\ scripts' = Append(scripts,
             ParseScript(WorkloadPath, ToUint(WorkloadWeight.val), FALSE))
     \/ /\ WorkloadPath \in Readable
        /\ \E readonly \in BOOLEAN :
             scripts' = Append(scripts,
               ParseScript(WorkloadPath, ToUint(WorkloadWeight.val), readonly))
  /\ UNCHANGED <<fWorkloads, wlpc>>
  /\ UNCHANGED <<awaitVars, exprVars, runVars, parseVars, scriptVars>>

\* main: the loop over fWorkloads is over
MainWorkloadsDone ==
  /\ wlpc = "loop"
  /\ Len(scripts) = Len(fWorkloads)
  /\ wlpc' = "done"
  /\ UNCHANGED <<fWorkloads, scripts>>
  /\ UNCHANGED <<awaitVars, exprVars, runVars, parseVars, scriptVars>>

\* the invocations of the model: <<--init, InitTPCBLike succeeds, --latency,
\* seed (the time of the invocation)>>
Invocations ==
  {<<FALSE, TRUE, FALSE, 1>>, <<TRUE, TRUE, TRUE, 2>>, <<TRUE, FALSE, FALSE, 1>>}

\* main before its first statement
MainStart ==
  /\ pc = "init"
  /\ stopRet = "wait"
  /\ spawned = 0
  /\ deadline = 0
  /\ now = 0
  /\ nextProgressReport = 0
  /\ progressReports = <<>>
  /\ originalDelta = 0
  /\ recorders = [w \in Workers |-> 0]
  /\ results = <<>>
  /\ total = NewResult
  /\ retErr = FALSE
  /\ reports = <<>>
  /\ initRuns = 0
  /\ exitCode = -1
  /\ exitBy = "none"
  /\ stopCh = "nil"
  /\ closed = FALSE
  /\ sigCh = 0
  /\ hpc = "none"
  /\ hsel = "nil"
  /\ signalCount = 0
  /\ wpc = [w \in Workers |-> "none"]
  /\ wres = [w \in Workers |-> [workerId |-> w, err |-> FALSE]]
  /\ resultChan = <<>>
  /\ wg = 0
  /\ wrkRand = NewSource(seed)
  /\ clientSeed = [w \in Workers |-> -1]
  /\ scripts = <<>>
  /\ wlpc = "loop"

\* the state after pflag.Parse()
Init ==
  /\ \E inv \in Invocations :
       /\ fInitMode = inv[1]
       /\ initOk = inv[2]
       /\ fLatencyMode = inv[3]
       /\ seed = inv[4]
  /\ runtime = FinalWindow + MaxExtraTicks
  /\ progressInterval = 1
  /\ MainStart
  /\ fWorkloads = DefaultWorkloads
  /\ ParseIdle
  /\ scale = 1
  /\ ScriptIdle

Next ==
  \/ MainInit
  \/ SetupSignalHandler
  \/ SpawnWorker
  \/ AwaitStart
  \/ AwaitStopped
  \/ AwaitFinalSleep
  \/ AwaitFinalWake
  \/ AwaitTick
  \/ CoordStopIf
  \/ CoordStopClose
  \/ CoordStopNil
  \/ WgWait
  \/ CollectRecv
  \/ CollectMerge
  \/ MainReport
  \/ SignalArrive
  \/ HandlerStart
  \/ HandlerSignal
  \/ HandlerStopped
  \/ HandlerStopIf
  \/ HandlerStopClose
  \/ HandlerStopNil
  \/ \E w \in Workers : WorkerReturn(w)
  \/ \E w \in Workers : WorkerSend(w)
  \/ \E w \in Workers : WorkerStopIf(w)
  \/ \E w \in Workers : WorkerStopClose(w)
  \/ \E w \in Workers : WorkerStopNil(w)

Spec == Init /\ [][Next]_vars

\* Parse called on one of the inputs, at the head of its loop
ParseInit ==
  /\ fInitMode = FALSE
  /\ initOk = TRUE
  /\ fLatencyMode = FALSE
  /\ seed = 1
  /\ runtime = FinalWindow + MaxExtraTicks
  /\ progressInterval = 1
  /\ MainStart
  /\ fWorkloads = DefaultWorkloads
  /\ input \in Scripts(MaxFrags)
  /\ c = NewContext
  /\ commands = <<>>
  /\ b = <<>>
  /\ ppc = "loop"
  /\ ret = [isSet |-> FALSE, commands |-> <<>>, err |-> NoErr]
  /\ scale = 1
  /\ ScriptIdle

ParseNext ==
  \/ ParseLoopDone
  \/ ParseLoopEOF
  \/ ParseLoopMeta
  \/ ParseLoopNewline
  \/ ParseLoopCommand
  \/ CommandNext
  \/ CommandEnd
  \/ ParseReturnErr
  \/ ParseReturnOk

ParseSpec == ParseInit /\ [][ParseNext]_vars

\* \set x <expression> on a line, then RETURN 1;
SetScript(expression) ==
  <<tBackslash, tSet, tX>> \o expression \o <<tNewline, tReturn, tOne, tSemi>>

\* the scripts of TestExpressions for the arithmetic operators
ExpressionScripts ==
  { SetScript(<<tOne, tStar, tTwo>>),
    SetScript(<<tOne, tStar, tTwo, tStar, tFour>>),
    SetScript(<<tOne, tPlus, tOne, tStar, tTwo>>),
    SetScript(<<tTwo, tMinus, tOne, tStar, tTwo, tPlus, tOne>>),
    SetScript(<<tOne, tStar, tLParen, tTwo, tPlus, tOne, tRParen>>) }

\* the scripts of TestSleepDuration
SleepScripts ==
  { <<tBackslash, tSleep, tOne>>, <<tBackslash, tSleep, tOne, tS>>,
    <<tBackslash, tSleep, tOne, tMs>>, <<tBackslash, tSleep, tOne, tUs>>,
    <<tBackslash, tSleep, tOne, tDays>> }

\* a script in the manner of the built-in one: a variable drawn by random and
\* used by a query, assigned again and used by another
BuiltinLikeScripts ==
  { <<tBackslash, tSet, tX, tRandom, tLParen, tOne, tComma, tTwo, tStar, tColon,
      tScale, tRParen, tNewline, tReturn, tX, tSemi, tNewline,
      tBackslash, tSet, tX, tFour, tNewline, tReturn, tOne, tSemi>> }

\* a query, a \set whose expression fails, and a query: the expression is a
\* variable that is not defined, alone or as an argument, or a call of random
\* with one argument
FailingExpressions ==
  { <<tColon, tY>>,
    <<tRandom, tLParen, tColon, tY, tComma, tOne, tRParen>>,
    <<tRandom, tLParen, tOne, tRParen>> }
FailingScripts ==
  { <<tReturn, tOne, tSemi, tNewline, tBackslash, tSet, tX>> \o x
      \o <<tNewline, tReturn, tX, tSemi>> : x \in FailingExpressions }

\* random with integer bounds in descending order, assigned by \set
DescendingScripts ==
  { SetScript(<<tRandom, tLParen, tTwo, tComma, tOne, tRParen>>),
    SetScript(<<tRandom, tLParen, tOne, tComma, tMinus, tFour, tRParen>>) }

Scales == {1, 2}
Seeds == {1, 2}

\* Parse called with a scale and a seed on one of the inputs; what it returns
\* gets a client, and the client calls of Next
ScriptInit ==
  /\ fInitMode = FALSE
  /\ initOk = TRUE
  /\ fLatencyMode = FALSE
  /\ seed \in Seeds
  /\ runtime = FinalWindow + MaxExtraTicks
  /\ progressInterval = 1
  /\ MainStart
  /\ fWorkloads = DefaultWorkloads
  /\ input \in Scripts(MaxFrags) \cup ExpressionScripts \cup SleepScripts
                \cup BuiltinLikeScripts \cup FailingScripts \cup DescendingScripts
  /\ c = NewContext
  /\ commands = <<>>
  /\ b = <<>>
  /\ ppc = "loop"
  /\ ret = [isSet |-> FALSE, commands |-> <<>>, err |-> NoErr]
  /\ scale \in Scales
  /\ ScriptIdle

ScriptNext ==
  \/ ParseNext
  \/ NewClient
  \/ ClientNextStart
  \/ QueryExecute
  \/ SetExecute
  \/ ClientNextReturn

ScriptSpec == ScriptInit /\ [][ScriptNext]_vars

\* -------------------------------------------------------- awaitCompletion
\* runBenchmark with the handler set up and every worker spawned, about to
\* set the deadline and call awaitCompletion; -d and --progress are drawn
AwaitInit ==
  /\ fInitMode = FALSE
  /\ initOk = TRUE
  /\ fLatencyMode = FALSE
  /\ seed = 1
  /\ runtime \in (FinalWindow - 1) .. (FinalWindow + MaxAwaitTicks)
  /\ progressInterval \in 0 .. MaxInterval
  /\ pc = "spawn"
  /\ stopRet = "wait"
  /\ spawned = NumClients
  /\ deadline = 0
  /\ now = 0
  /\ nextProgressReport = 0
  /\ progressReports = <<>>
  /\ originalDelta = 0
  /\ recorders = [w \in Workers |-> 0]
  /\ results = <<>>
  /\ total = NewResult
  /\ retErr = FALSE
  /\ reports = <<>>
  /\ initRuns = 0
  /\ exitCode = -1
  /\ exitBy = "none"
  /\ stopCh = "chan"
  /\ closed = FALSE
  /\ sigCh = 0
  /\ hpc = "start"
  /\ hsel = "nil"
  /\ signalCount = 0
  /\ wpc = [w \in Workers |-> "run"]
  /\ wres = [w \in Workers |-> [workerId |-> w, err |-> FALSE]]
  /\ resultChan = <<>>
  /\ wg = NumClients
  /\ wrkRand = [seed |-> seed, n |-> NumClients]
  /\ clientSeed = [w \in Workers |-> Mix(seed, w)]
  /\ scripts = <<>>
  /\ wlpc = "loop"
  /\ fWorkloads = DefaultWorkloads
  /\ ParseIdle
  /\ scale = 1
  /\ ScriptIdle

AwaitNext ==
  \/ AwaitStart
  \/ AwaitStopped
  \/ AwaitFinalSleep
  \/ AwaitFinalWake
  \/ AwaitTick
  \/ SignalArrive
  \/ HandlerStart
  \/ HandlerSignal
  \/ HandlerStopIf
  \/ HandlerStopClose
  \/ HandlerStopNil
  \/ \E w \in Workers : WorkerRecord(w)

AwaitSpec == AwaitInit /\ [][AwaitNext]_vars

\* ---------------------------------------------------------- -w arguments
\* the -w arguments of the model: a path, alone or with @ and more
WorkloadPaths == {<<"builtin:tpcb-like">>, <<"builtin:match-only">>, <<"a.script">>,
                  <<"missing.script">>}
WeightSuffixes ==
  {<<>>, <<"@", "1">>, <<"@", "2">>, <<"@", "1", "0">>, <<"@", "0">>, <<"@", "-", "1">>,
   <<"@", "-", "2">>, <<"@", "+", "2">>, <<"@", "x">>, <<"@">>, <<"@", "2", "@", "1">>}
WorkloadArgs == {path \o suffix : path \in WorkloadPaths, suffix \in WeightSuffixes}

RECURSIVE WorkloadFlags(_)
WorkloadFlags(n) ==
  IF n = 0 THEN {<<>>}
  ELSE WorkloadFlags(n - 1)
       \cup {Append(ws, w) : ws \in {x \in WorkloadFlags(n - 1) : Len(x) = n - 1},
                             w \in WorkloadArgs}

\* main with -w given MaxWorkloads times at most
WeightInit ==
  /\ fInitMode = FALSE
  /\ initOk = TRUE
  /\ fLatencyMode = FALSE
  /\ seed = 1
  /\ runtime = FinalWindow + MaxExtraTicks
  /\ progressInterval = 1
  /\ MainStart
  /\ fWorkloads \in WorkloadFlags(MaxWorkloads) \ {<<>>}
  /\ ParseIdle
  /\ scale = 1
  /\ ScriptIdle

WeightNext ==
  \/ MainWeightFatal
  \/ MainCreateScriptFatal
  \/ MainCreateScript
  \/ MainWorkloadsDone

WeightSpec == WeightInit /\ [][WeightNext]_vars

\* ---------------------------------------------------------- Expression.Eval
\* Expression.Eval(ctx) with ctx.Rand a generator newly made of the seed:
\* rand.New(rand.NewSource(seed)); the global source goes on from where the
\* evaluations before left it
EvalFresh ==
  /\ Len(xouts) < MaxEvals
  /\ xouts' = Append(xouts, ExpressionEval(xe, xvars, NewSource(seed), grand))
  /\ grand' = ExpressionEval(xe, xvars, NewSource(seed), grand).g
  /\ UNCHANGED <<xe, xvars, weightVars, awaitVars>>
  /\ UNCHANGED <<scale, seed, wl, heap, cw, ctx, uow, ip, npc, nret, units, taken>>
  /\ UNCHANGED <<runVars, parseVars>>

\* the integer literals, the variables of the context (an int64, a float64;
\* u is not defined) and the expressions of the model
IntLits == {MinInt, MinInt + 1, -1, 0, 1, 2, MaxInt}
ContextVars ==
  [x \in {"scale", "n", "f"} |->
     CASE x = "scale" -> IntVal(1) [] x = "n" -> IntVal(2) [] OTHER -> FloatVal(1)]
Atoms ==
  {IntExpr(i) : i \in IntLits} \cup {VarExpr("n"), VarExpr("f"), VarExpr("u")}
Expressions ==
  Atoms
  \cup {CallExpr(name, <<x, y>>) : name \in {"random", "*", "abs"}, x \in Atoms, y \in Atoms}
  \cup {CallExpr("random", <<x>>) : x \in Atoms}
  \cup {CallExpr("random", <<>>), ZeroExpr}
  \cup {CallExpr("random", <<CallExpr("random", <<IntExpr(0), IntExpr(2)>>), x>>) :
          x \in Atoms}

EvalInit ==
  /\ fInitMode = FALSE
  /\ initOk = TRUE
  /\ fLatencyMode = FALSE
  /\ seed \in Seeds
  /\ runtime = FinalWindow + MaxExtraTicks
  /\ progressInterval = 1
  /\ MainStart
  /\ fWorkloads = DefaultWorkloads
  /\ ParseIdle
  /\ scale = 1
  /\ wl = [isSet |-> FALSE]
  /\ heap = <<>>
  /\ grand = 0
  /\ cw = [isSet |-> FALSE]
  /\ ctx = [isSet |-> FALSE]
  /\ uow = [isSet |-> FALSE]
  /\ ip = 0
  /\ npc = "idle"
  /\ nret = [isSet |-> FALSE]
  /\ units = <<>>
  /\ taken = <<>>
  /\ xe \in Expressions
  /\ xvars = ContextVars
  /\ xouts = <<>>

EvalNext == EvalFresh

EvalSpec == EvalInit /\ [][EvalNext]_vars

\* ------------------------------------------------------------------ claims
\* the workers whose RunBenchmark returned a WorkerResult with a terminal Error
Crashed == {w \in Workers : wpc[w] \in {"send", "stop_if", "stop_close", "stop_nil", "done"}
                              /\ wres[w].err}

\* the sum of a counter over a sequence of results
RECURSIVE SumOf(_, _)
SumOf(rs, field) ==
  IF rs = <<>> THEN 0 ELSE Head(rs)[field] + SumOf(Tail(rs), field)

\* the results of the workers that returned without a terminal Error
RECURSIVE WithoutError(_)
WithoutError(rs) ==
  IF rs = <<>> THEN <<>>
  ELSE IF Head(rs).err THEN WithoutError(Tail(rs))
  ELSE <<Head(rs)>> \o WithoutError(Tail(rs))

\* collectResults has returned its total to runBenchmark
Merged == pc \in {"stop_if", "stop_close", "stop_nil", "report", "exited"}
          /\ stopRet = "report"

\* C1: a second signal delivered after the handler received the first finds
\* the handler goroutine alive to receive it, and a process that ends with such
\* a signal delivered ends by the handler's os.Exit(1) (a process that died of
\* a panic set aside)
C1_SecondSignalForcesExit ==
  /\ (~Running /\ exitBy # "panic" /\ signalCount >= 1 /\ sigCh >= 1)
       => (exitBy = "signal" /\ exitCode = 1)
  /\ (Running /\ signalCount >= 1 /\ sigCh >= 1) => hpc # "done"

\* C2: no call of stop() closes a channel that is already closed (or nil): no
\* goroutine stands at close(stopCh) with the channel closed, and the process
\* never dies of the panic that such a close raises
C2_StopClosesOnce ==
  /\ exitBy # "panic"
  /\ (pc = "stop_close" => ~closed)
  /\ (hpc = "stop_close" => ~closed)
  /\ \A w \in Workers : wpc[w] = "stop_close" => ~closed

\* C3: a process that ends after a worker returned a terminal error ends with
\* a non-zero exit code
C3_WorkerErrorExitsNonZero ==
  (~Running /\ Crashed # {}) => exitCode # 0

C5_SignalGracefulFinish ==
  (~Running /\ signalCount >= 1)
    => /\ exitBy = "main"
       /\ closed
       /\ \A w \in Workers : wpc[w] = "done"
       /\ reports = <<IF fLatencyMode THEN "latency" ELSE "throughput">>

\* C6: while collectResults runs, shutdown has been signalled, every worker has
\* returned, sent its result and ended, and the results received and still to
\* receive are exactly one per worker
C6_CollectAfterJoin ==
  pc = "collect" =>
    /\ closed
    /\ \A w \in Workers : wpc[w] = "done"
    /\ Len(results) + Len(resultChan) = NumClients
    /\ \A w \in Workers :
         Cardinality({i \in 1 .. Len(results) : results[i].workerId = w})
         + Cardinality({i \in 1 .. Len(resultChan) : resultChan[i].workerId = w}) = 1

\* C6 witness: collectResults has received the result of every worker
C6_Witness ==
  /\ pc = "collect"
  /\ Len(results) = NumClients
  /\ resultChan = <<>>

C8_InitThenExit ==
  fInitMode => (spawned = 0 /\ hpc = "none" /\ reports = <<>>)

\* C8 amended: with --init the initialization runs once, before anything else;
\* if it fails the process ends with code 1 and no worker was spawned, and if
\* it succeeds the benchmark runs
C8_InitThenBenchmark ==
  fInitMode =>
    /\ (pc # "init" => initRuns = 1)
    /\ (hpc # "none" \/ spawned > 0 => initRuns = 1 /\ initOk)
    /\ (~initOk /\ initRuns = 1 =>
          exitBy = "fatal" /\ exitCode = 1 /\ spawned = 0 /\ hpc = "none")
    /\ (initOk => exitBy # "fatal")

\* C8 witness: a run with --init that went on to spawn its workers
C8_Witness ==
  /\ fInitMode
  /\ initRuns = 1
  /\ spawned = NumClients
  /\ reports # <<>>

\* C9: Parse comes to its return: command(), while its loop runs, can take a
\* turn that changes the state of Parse (it is never in a state that every
\* further turn of the loop leaves as it is), and Parse after its loop returns
C9_ParseTerminates ==
  /\ ppc = "command" => ENABLED <<CommandNext \/ CommandEnd>>_vars
  /\ ppc = "check" => ENABLED <<ParseReturnErr \/ ParseReturnOk>>_vars

\* C10: when Parse has returned: it returns an error exactly when fail was
\* called; the error is that of the first call of fail, with the scanner's
\* position at that call, and comes with no commands; without an error the
\* whole input was read and the commands returned are those parsed
C10_FirstErrorNoPartialScript ==
  ppc = "returned" =>
    /\ (ret.err # NoErr) <=> (c.failed # <<>>)
    /\ ret.err # NoErr =>
         /\ ret.err = Head(c.failed)
         /\ ret.err.at \in 1 .. Len(input)
         /\ ret.commands = <<>>
    /\ ret.err = NoErr =>
         /\ ret.commands = commands
         /\ c.pos = Len(input)
         /\ c.peek = EOFTok
         /\ \A i \in 1 .. Len(commands) : commands[i].kind # "nil"

\* C10 witness: Parse returned after two calls of fail with different errors
\* and with a command already parsed before the first
C10_Witness ==
  /\ ppc = "returned"
  /\ Len(c.failed) >= 2
  /\ c.failed[1] # c.failed[2]
  /\ Len(commands) >= 2
  /\ commands[1].kind \in {"set", "query"}
  /\ ret.commands = <<>>

\* C11: the params of every statement of the unit of work in the making are
\* the variables as they were when its query command executed, whatever the
\* commands executed since have assigned
C11_ParamsAreSnapshot ==
  uow.isSet =>
    /\ Len(taken) = Len(uow.Statements)
    /\ \A i \in 1 .. Len(uow.Statements) :
         /\ heap[uow.Statements[i].Params] = taken[i]
         /\ uow.Statements[i].Params # ctx.Vars

\* C11 witness: a \set executed after a query has given the context a
\* variable that the statement's params do not have
C11_Witness ==
  /\ uow.isSet
  /\ Len(uow.Statements) >= 1
  /\ heap[ctx.Vars] # heap[uow.Statements[1].Params]
  /\ heap[uow.Statements[1].Params] = taken[1]

\* C12: every statement of every unit of work that a call of Next returned,
\* and of the one in the making, has a params entry for scale
C12_ParamsHaveScale ==
  /\ \A k \in 1 .. Len(units) : \A i \in 1 .. Len(units[k]) :
       "scale" \in DOMAIN units[k][i].Params
  /\ uow.isSet => \A i \in 1 .. Len(uow.Statements) :
       "scale" \in DOMAIN heap[uow.Statements[i].Params]

\* C12 witness: the second call of Next on a script that assigns a variable
\* with \set has returned a unit of work with a statement
C12_Witness ==
  /\ Len(units) = MaxNextCalls
  /\ \E i \in 1 .. Len(units[MaxNextCalls]) :
       /\ "x" \in DOMAIN units[MaxNextCalls][i].Params
       /\ units[MaxNextCalls][i].Params["scale"] = IntVal(scale)
  /\ nret.err = NoEvalErr

\* what an evaluation came to, for its caller: a value, an error or a panic
Outcome(r) == [ok |-> r.ok, panic |-> r.panic, val |-> r.val, err |-> r.err]

\* C13: two evaluations of an expression, each with a generator newly made of
\* the same seed and with the same variables, come to the same
C13_EvalDeterministicInSeed ==
  Len(xouts) >= 2 => Outcome(xouts[1]) = Outcome(xouts[2])

\* C14: the generator of the client of worker w is seeded with draw w of the
\* generator made of the top-level seed (the draws counted from 0), made by
\* the spawn loop before the worker's goroutine exists, one draw per worker
C14_ClientSeedsInWorkerOrder ==
  /\ wrkRand = [seed |-> seed, n |-> spawned]
  /\ \A w \in Workers :
       /\ w < spawned => clientSeed[w] = Mix(seed, w)
       /\ w >= spawned => clientSeed[w] = -1
       /\ wpc[w] # "none" => clientSeed[w] = Mix(seed, w)

\* C14 witness: the last worker spawned has returned before the first one,
\* each with the seed of its place
C14_Witness ==
  /\ spawned = NumClients
  /\ wpc[NumClients - 1] = "done"
  /\ wpc[0] = "run"
  /\ clientSeed[0] = Mix(seed, 0)
  /\ clientSeed[NumClients - 1] = Mix(seed, NumClients - 1)
  /\ clientSeed[0] # clientSeed[NumClients - 1]

\* the positions of the query commands among cmds, in their order
RECURSIVE QueryPositions(_, _)
QueryPositions(cmds, from) ==
  IF from > Len(cmds) THEN <<>>
  ELSE IF cmds[from].kind = "query"
    THEN <<from>> \o QueryPositions(cmds, from + 1)
    ELSE QueryPositions(cmds, from + 1)

\* the \set commands before position q, and whether the one at j is the last
\* before q to assign its variable
SetsBefore(cmds, q) == {j \in 1 .. (q - 1) : cmds[j].kind = "set"}
LastSetBefore(cmds, j, q) ==
  \A k \in SetsBefore(cmds, q) : cmds[k].varName = cmds[j].varName => k <= j

\* C15: a unit of work that Next returned without an error has one statement
\* per query command, with the queries in the order of the script; the
\* params of a statement have scale and the variables of the \set commands
\* before its query and no other, with scale as Next set it and a variable
\* assigned an integer literal by the last \set before the query having it
C15_StatementsInSourceOrder ==
  (npc = "returned" /\ nret.err = NoEvalErr) =>
    LET cmds == cw.commands
        qs == QueryPositions(cmds, 1)
        u == nret.uow
    IN /\ Len(u) = Len(qs)
       /\ \A i \in 1 .. Len(qs) :
            /\ u[i].Query = cmds[qs[i]].query
            /\ DOMAIN u[i].Params =
                 {"scale"} \cup {cmds[j].varName : j \in SetsBefore(cmds, qs[i])}
            /\ u[i].Params["scale"] = IntVal(cw.scale)
            /\ \A j \in SetsBefore(cmds, qs[i]) :
                 (LastSetBefore(cmds, j, qs[i]) /\ cmds[j].expression.kind = "int")
                   => u[i].Params[cmds[j].varName] = IntVal(cmds[j].expression.val)

\* C15 witness: a unit of work of two statements with different queries, the
\* variable drawn by random in the first and assigned again in the second
C15_Witness ==
  /\ npc = "returned"
  /\ nret.err = NoEvalErr
  /\ Len(nret.uow) = 2
  /\ nret.uow[1].Query # nret.uow[2].Query
  /\ "x" \in DOMAIN nret.uow[1].Params
  /\ nret.uow[1].Params["x"].v \in 1 .. (2 * scale - 1)
  /\ nret.uow[2].Params["x"] = IntVal(4)

\* what TestExpressions expects of the expression of a script of
\* ExpressionScripts
ExpectedValue(script) ==
  CASE script = SetScript(<<tOne, tStar, tTwo>>) -> 2
    [] script = SetScript(<<tOne, tStar, tTwo, tStar, tFour>>) -> 8
    [] script = SetScript(<<tOne, tPlus, tOne, tStar, tTwo>>) -> 3
    [] script = SetScript(<<tTwo, tMinus, tOne, tStar, tTwo, tPlus, tOne>>) -> 1
    [] script = SetScript(<<tOne, tStar, tLParen, tTwo, tPlus, tOne, tRParen>>) -> 3

\* C16: a script that assigns an arithmetic expression with \set and then has
\* the query RETURN 1 parses without an error, to a \set command and that one
\* query; its unit of work has the one statement RETURN 1, with the variable
\* at the value of the expression under the precedence grammar: 1 * 2 * 4
\* is 8, 1 + 1 * 2 is 3, 2 - 1 * 2 + 1 is 1 and 1 * (2 + 1) is 3
C16_ExpressionsFollowGrammar ==
  input \in ExpressionScripts =>
    /\ ppc = "returned" =>
         /\ ret.err = NoErr
         /\ Len(ret.commands) = 2
         /\ ret.commands[1].kind = "set"
         /\ ret.commands[2].kind = "query"
    /\ npc = "returned" =>
         /\ nret.err = NoEvalErr
         /\ Len(nret.uow) = 1
         /\ nret.uow[1].Query = <<"RETURN", "1">>
         /\ nret.uow[1].Params["x"] = IntVal(ExpectedValue(input))

\* C17: \sleep with an expression and no unit or the unit s, ms or us parses
\* without an error to one sleep command; with another unit Parse returns the
\* error that says the command must use 'us', 'ms', or 's'
C17_SleepParses ==
  (input \in SleepScripts /\ ppc = "returned") =>
    IF input[Len(input)] = tDays
      THEN ret.err.what =
             "\\sleep command must use 'us', 'ms', or 's' unit argument - or none"
      ELSE /\ ret.err = NoErr
           /\ Len(ret.commands) = 1
           /\ ret.commands[1].kind = "sleep"

\* C18: random of two integer literals lo and hi evaluates to a value and
\* neither to an error nor to a panic: with lo < hi to an integer r with
\* lo <= r < hi, with lo = hi to lo
C18_RandomInHalfOpenRange ==
  \A lo \in IntLits, hi \in IntLits :
    (lo <= hi /\ xe = CallExpr("random", <<IntExpr(lo), IntExpr(hi)>>)) =>
      \A i \in 1 .. Len(xouts) :
        /\ xouts[i].ok
        /\ ~xouts[i].panic
        /\ ~xouts[i].val.isFloat
        /\ lo < hi => (lo <= xouts[i].val.v /\ xouts[i].val.v < hi)
        /\ lo = hi => xouts[i].val.v = lo

\* the weight given by a -w argument: the integer after @, 1 without @
GivenWeight(arg) ==
  IF Len(Split(arg)) > 1 THEN strconvAtoi(Split(arg)[2]).val ELSE 1

\* C19: every script that main made of a -w argument has a weight of 1 or
\* more, and it is the weight that the argument gives
C19_WeightsStrictlyPositive ==
  \A i \in 1 .. Len(scripts) :
    /\ scripts[i].Weight >= 1
    /\ scripts[i].Weight = GivenWeight(fWorkloads[i])

\* what the recorders of all the workers have recorded, added up
RECURSIVE RecordedBy(_)
RecordedBy(n) == IF n = 0 THEN 0 ELSE recorders[n - 1] + RecordedBy(n - 1)

\* a step of the program as C20 has it
PacedReportStep ==
  /\ progressReports' # progressReports =>
       LET k == Len(progressReports) + 1
           r == progressReports'[k]
           start == deadline - originalDelta
       IN /\ pc = "await_head"
          /\ Len(progressReports') = k
          /\ SubSeq(progressReports', 1, k - 1) = progressReports
          /\ now > start + k * progressInterval
          /\ r.checkpoint = RecordedBy(NumClients)
          /\ r.delta = deadline - now
          /\ r.originalDelta > 0
          /\ FinalWindow <= r.delta
          /\ r.delta <= r.originalDelta
  /\ (pc = "await_head" /\ ~closed /\ deadline - now < FinalWindow
        /\ coordVars' # coordVars) =>
       /\ pc' = "await_final"
       /\ now' = now
       /\ progressReports' = progressReports
  /\ (pc = "await_final" /\ coordVars' # coordVars) =>
       /\ pc' = "stop_if"
       /\ now' >= deadline
       /\ progressReports' = progressReports

C21_HandlerEndsOnExternalClose ==
  (Running /\ hpc = "select" /\ closed /\ sigCh = 0) =>
    ENABLED <<HandlerStopped>>_vars

\* the variables that are defined when the command at j executes
DefinedAt(cmds, j) == {"scale"} \cup {cmds[k].varName : k \in SetsBefore(cmds, j)}

\* the \set commands of cmds whose expression is a variable not defined there
UndefinedRefs(cmds) ==
  {j \in 1 .. Len(cmds) :
     /\ cmds[j].kind = "set"
     /\ cmds[j].expression.kind = "var"
     /\ cmds[j].expression.name \notin DefinedAt(cmds, j)}

\* C22: when Next has returned an error, the command in turn is a \set, no
\* further command executes, and the unit of work has the statements of the
\* queries before that command and no other; an error about a variable names
\* a variable not defined at that command, and when the expression is such a
\* variable the error is 'this variable is not defined' with its name. Next
\* returns no error only when no \set refers so to an undefined variable
C22_FirstErrorStopsUnit ==
  /\ (npc = "returned" /\ nret.err # NoEvalErr) =>
       LET cmds == cw.commands
           qs == QueryPositions(SubSeq(cmds, 1, ip - 1), 1)
       IN /\ ip \in 1 .. Len(cmds)
          /\ cmds[ip].kind = "set"
          /\ ~ENABLED <<QueryExecute \/ SetExecute \/ ClientNextReturn>>_vars
          /\ Len(nret.uow) = Len(qs)
          /\ \A i \in 1 .. Len(qs) : nret.uow[i].Query = cmds[qs[i]].query
          /\ nret.err.what = "this variable is not defined" =>
               nret.err.got \notin DefinedAt(cmds, ip)
          /\ ip \in UndefinedRefs(cmds) =>
               nret.err = EvalErrorf("this variable is not defined",
                                     cmds[ip].expression.name)
  /\ (npc = "returned" /\ nret.err = NoEvalErr) => UndefinedRefs(cw.commands) = {}

\* C22 witness: Next returned the error of a \set that has a query after it,
\* about the variable y, with the statement of the query before it
C22_Witness ==
  /\ npc = "returned"
  /\ nret.err.what = "this variable is not defined"
  /\ nret.err.got = "y"
  /\ Len(nret.uow) = 1
  /\ ip < Len(cw.commands)
  /\ cw.commands[ip + 1].kind = "query"

\* C23: the context of a call of Next has, at every command, scale and the
\* variables that the \set commands before it assigned in this call, and
\* none that a call before assigned, of this client or of another; its map
\* is one that no call before had; and the workload and the client keep the
\* scale, the commands and the readonly flag that Parse gave
C23_ContextPerUnitOfWork ==
  /\ npc = "loop" =>
       /\ DOMAIN heap[ctx.Vars] = DefinedAt(cw.commands, ip)
       /\ heap[ctx.Vars]["scale"] = IntVal(scale)
       /\ ctx.Vars > Len(heap) - 1 - Len(uow.Statements)
  /\ wl.isSet =>
       /\ wl.scale = scale
       /\ wl.commands = ret.commands
       /\ wl.readonly = FALSE
  /\ cw.isSet =>
       /\ cw.scale = scale
       /\ cw.commands = ret.commands
       /\ cw.readonly = FALSE

\* C23 witness: the first call of Next assigned x, and the call of Next of a
\* second client is at its first command without x
C23_Witness ==
  /\ npc = "loop"
  /\ ip = 1
  /\ wl.rand.n = 2
  /\ Len(units) = 1
  /\ Len(units[1]) >= 1
  /\ "x" \in DOMAIN units[1][1].Params
  /\ "x" \notin DOMAIN heap[ctx.Vars]

\* the results of worker w that were sent: those in resultChan and those that
\* collectResults received
SentBy(w) ==
  Cardinality({i \in 1 .. Len(resultChan) : resultChan[i].workerId = w})
  + Cardinality({i \in 1 .. Len(results) : results[i].workerId = w})

\* every worker spawned has returned from RunBenchmark
AllReturned == spawned = NumClients /\ \A w \in Workers : wpc[w] \notin {"none", "run"}

\* C24, the sends: a worker has sent no result before its send and one after
\* it, and a worker at its send finds room in resultChan
SendsOnceUnblocked ==
  \A w \in Workers :
    /\ SentBy(w) = IF wpc[w] \in {"none", "run", "send"} THEN 0 ELSE 1
    /\ wpc[w] = "send" => Len(resultChan) < NumClients

\* C24, no deadlock: while the process runs with every worker returned, some
\* goroutine of runBenchmark can take a step
ReturnedNotStuck ==
  (Running /\ AllReturned) => ENABLED <<Next>>_vars

\* C24: every worker sends one result and none blocks at the send; once
\* every worker has returned from RunBenchmark the run goes on, no goroutine
\* ending the process with a panic, until wg.Wait has returned and
\* collectResults has received NumClients results
C24_OneSendNoDeadlock ==
  /\ SendsOnceUnblocked
  /\ ReturnedNotStuck
  /\ AllReturned => exitBy # "panic"
  /\ (AllReturned /\ pc \in {"report", "exited"}) => Len(results) = NumClients

\* C25: no call of Next on the commands that Parse returned ends in a panic:
\* every evaluation of an expression comes to a value or to an error
C25_EvalNeverPanics ==
  /\ npc # "panicked"
  /\ npc = "loop" /\ ip <= Len(cw.commands) /\ cw.commands[ip].kind = "set" =>
       ~ExpressionEval(cw.commands[ip].expression, heap[ctx.Vars], cw.rand, grand).panic

\* a step of awaitCompletion at its loop head: with the stop channel closed it
\* returns with no report and no sleep; a report is made only by a step that
\* found the channel open, and the sleep after it is of one iteration, so
\* that the next look at the channel is no later
StopSeenAtHead ==
  /\ (pc = "await_head" /\ closed /\ coordVars' # coordVars) =>
       /\ pc' = "stop_if"
       /\ now' = now
       /\ progressReports' = progressReports
  /\ progressReports' # progressReports => ~closed
  /\ (pc = "await_head" /\ pc' = "await_head" /\ coordVars' # coordVars) =>
       now' <= now + 1 + MaxLag

\* C26 as claimed: awaitCompletion returns at the loop head that finds the
\* stop channel closed, and a close during the final sleep makes it return
\* within the time of one iteration
C26_CloseEndsFinalSleep ==
  [][/\ StopSeenAtHead
     /\ (pc = "await_final" /\ closed /\ coordVars' # coordVars) =>
          (pc' = "stop_if" /\ now' <= now + 1 + MaxLag)]_vars

\* C26: awaitCompletion returns at the loop head that finds the stop channel
\* closed, a sleep of one iteration at most after the close, with no report
\* made after the close was seen; the final sleep is not cut short by a
\* close: awaitCompletion returns from it at the deadline, less than 2 s
\* after it began, and with no report
C26_CloseSeenAtLoopHead ==
  [][/\ StopSeenAtHead
     /\ (pc = "await_final" /\ coordVars' # coordVars) =>
          /\ pc' = "stop_if"
          /\ now' = (IF deadline > now THEN deadline ELSE now)
          /\ now' - now < FinalWindow
          /\ progressReports' = progressReports]_vars

\* C26 witness: the stop channel was closed during the final sleep, with more
\* than one iteration left until the deadline
C26_Witness ==
  /\ Running
  /\ pc = "await_final"
  /\ closed
  /\ deadline - now > 1 + MaxLag

====
